---------------------------- MODULE Spec2Model ----------------------------
(***************************************************************************)
(* Lunr system observer (src/Lunr/App/P1/SystemObserver.mm).               *)
(*                                                                         *)
(* Two threads share the session table `sessions` (a local of main, handed *)
(* to the analyzer thread by pointer) under the global sessionMutex:       *)
(*   - main, the sampler: polls the frontmost application every 5 seconds, *)
(*     commits the closed span on a switch, leaves its loop when the next  *)
(*     character of stdin is a newline, commits the open span, prints the  *)
(*     summary, writes the daily log and returns;                          *)
(*   - the detached analyzer thread: every 30 seconds copies the table     *)
(*     under the mutex and analyses the copy.                              *)
(* The clock counts in units of 1/TicksPerSecond second; a Seconds value is *)
(* a whole number of seconds, as duration_cast<Seconds> leaves it.         *)
(***************************************************************************)
EXTENDS Integers, Sequences, FiniteSets, TLC

\* ------------------------------------------------------------------ bounds
\* The clock is not advanced beyond MaxTime seconds.
MaxTime == 61
\* The sampler polls the provider at most MaxPolls times inside its loop.
MaxPolls == 3
\* Resolution of the clock: units per second.
TicksPerSecond == 2
\* The clock drifts off a whole second by at most MaxDrift units.
MaxDrift == 1

\* ------------------------------------------------------- program constants
\* sleep_for(std::chrono::seconds(5)) of the sampling loop.
SamplerPeriod == 5
\* sleep_for(std::chrono::seconds(30)) of the analyzer loop.
AnalyzerPeriod == 30

\* The identifiers the frontmost-application provider returns.
Apps == {"A", "B"}
\* The identifiers of scenario A.
ScenarioApps == {"A", "B", "C"}
\* The identifiers of scenarios B and C.
ReportApps == {"Chrome", "Terminal"}
AllApps == Apps \cup ScenarioApps \cup ReportApps

\* [frontmost localizedName] when no application is frontmost: nil, and
\* [nil UTF8String] is a null pointer.
Nil == "nil"
\* A fault that ends the process.
Fault == "fault"

\* std::string([name UTF8String]): the identifier's characters; of a null
\* pointer the construction is undefined, a fault or whatever the read
\* finds, any identifier.
FromUTF8(name) ==
    IF name = Nil THEN {Fault} \cup Apps ELSE {name}

VARIABLES
    clock,        \* the time that has passed, in clock units
    skew,         \* what std::chrono::system_clock is ahead of `clock`
    stdinHead,    \* what std::cin.peek() finds: "none" (blocks), "enter", "other"
                  \* (another character or end of file), "line" (another
                  \* character, with Enter typed after it)
    proc,         \* "running", "exited" (exit after main returned), "crashed"
    pc,           \* main: the statement it is at
    final,        \* main: TRUE once the loop is left (the commit at 164-172)
    wakeMain,     \* main: the instant its sleep_for may return
    polls,        \* main: polls of the provider made inside the loop
    currentApp,   \* main: currentApp
    startTime,    \* main: currentSession.startTime
    frontApp,     \* main: frontApp of the current iteration
    now,          \* main: now
    duration,     \* main: duration
    sessions,     \* main: sessions, the shared table
    alive,        \* TRUE until main returns and `sessions` is destroyed
    mutex,        \* sessionMutex: "free", "main", "analyzer"
    pcA,          \* analyzer: the statement it is at
    wakeA,        \* analyzer: the instant its sleep_for may return
    snapshot,     \* analyzer: snapshot
    report,       \* analyzer: what the last analyzeBehavior computed
    summary,      \* the lines printSummary wrote to the terminal
    logFile,      \* the log files in the working directory, one per date
    flushed,      \* history: the last writeDailyLog, what it found and read
    issued,       \* history: the commits main has entered, in order
    pre,          \* history: the table when the last commit was entered
    tick,         \* history: what main saw at the poll of this iteration
    shut,         \* history: the open session when the loop was left
    lastSnap,     \* history: the last table the analyzer copied
    snapInfo,     \* history: copies made, Len(issued) at the last, was it
                  \* dangling; the clock reading when tracking began
    cityGroups,   \* contact group manager: cityGroups, city to its people
    seen,         \* contact group manager: seen, the identities stored
    entered       \* contact group manager: the last choice, what was
                  \* entered with it and what the program answered

vars == <<clock, skew, stdinHead, proc, pc, final, wakeMain, polls, currentApp,
          startTime, frontApp, now, duration, sessions, alive, mutex, pcA,
          wakeA, snapshot, report, summary, logFile, flushed, issued, pre,
          tick, shut, lastSnap, snapInfo, cityGroups, seen, entered>>

mainVars == <<pc, final, wakeMain, polls, currentApp, startTime, frontApp,
              now, duration>>
analyzerVars == <<pcA, wakeA, snapshot, report>>
outputVars == <<summary, logFile, flushed>>
bookVars == <<cityGroups, seen, entered>>
envVars == <<skew, bookVars>>
historyVars == <<issued, pre, tick, shut, lastSnap, snapInfo>>

\* ------------------------------------------------------------- the table
\* AppSession (the startTime field of a table entry is never written or
\* read: only currentSession.startTime is, the variable startTime).
AppSession(name, total, spans) ==
    [present |-> TRUE, appName |-> name, totalDuration |-> total,
     focusDurations |-> spans]

\* A key the unordered_map does not hold.
Absent ==
    [present |-> FALSE, appName |-> "", totalDuration |-> 0,
     focusDurations |-> <<>>]

\* std::unordered_map<std::string, AppSession>, empty.
EmptyTable == [a \in AllApps |-> Absent]

Keys(t) == {a \in AllApps : t[a].present}

\* sessions[app]: operator[] default-constructs the entry of an absent key.
Subscript(t, app) ==
    IF t[app].present THEN t
    ELSE [t EXCEPT ![app] = AppSession("", 0, <<>>)]

\* sessions[currentApp].appName = currentApp;
SetAppName(t, app) ==
    [Subscript(t, app) EXCEPT ![app].appName = app]

\* AddTotal with = for +=.
AddTotalAssigned(t, app, d) ==
    [Subscript(t, app) EXCEPT ![app].totalDuration = d]

\* sessions[currentApp].totalDuration += duration;
AddTotal(t, app, d) ==
    [Subscript(t, app) EXCEPT ![app].totalDuration = @ + d]

\* PushBack that keeps spans of no length out of the vector.
PushBackSkipsZero(t, app, d) ==
    IF d = 0 THEN Subscript(t, app)
    ELSE [Subscript(t, app) EXCEPT ![app].focusDurations = Append(@, d)]

\* PushBack without the push_back.
PushBackDropped(t, app, d) == Subscript(t, app)

\* sessions[currentApp].focusDurations.push_back(duration);
PushBack(t, app, d) ==
    [Subscript(t, app) EXCEPT ![app].focusDurations = Append(@, d)]

\* A number of seconds in clock units.
Sec(n) == n * TicksPerSecond

\* SystemNow read off a clock that nothing adjusts (steady_clock).
SteadyNow == clock

\* Clock::now(): Clock is std::chrono::system_clock, the wall clock, which
\* the system may set forward or back.
SystemNow == clock + skew

\* DurationCast rounding up (std::chrono::ceil).
DurationCastCeil(d) ==
    (d + TicksPerSecond - 1) \div TicksPerSecond

\* std::chrono::duration_cast<Seconds>: truncation toward zero.
DurationCast(d) ==
    IF d >= 0 THEN d \div TicksPerSecond ELSE -((-d) \div TicksPerSecond)

RECURSIVE SumSeq(_)
SumSeq(s) == IF s = <<>> THEN 0 ELSE Head(s) + SumSeq(Tail(s))

\* ------------------------------------------------------------ the log file
\* The dates getCurrentDateString returns, in the order of the calendar.
Dates == <<"2024-01-01", "2024-01-02">>
DateSet == {Dates[i] : i \in 1..Len(Dates)}

\* What the two calls of getCurrentDateString in one writeDailyLog return:
\* the same date twice.
SameDay == {<<d, d>> : d \in {Dates[1]}}
\* The same, or midnight passes between the two calls.
DateReads ==
    {<<Dates[i], Dates[j]>> : i \in 1..Len(Dates), j \in 1..Len(Dates)}
    \ {<<Dates[i], Dates[j]>> : i \in 2..Len(Dates), j \in 1..1}

\* No file of that name exists.
NoLog == [written |-> FALSE, header |-> <<>>, lines |-> <<>>]
NoFiles == [d \in DateSet |-> NoLog]

\* Mins rounding to the nearest minute.
MinsRounded(t) == (t + 30) \div 60

\* int mins = session.totalDuration.count() / 60; the division of C++
\* truncates toward zero.
Mins(t) == IF t >= 0 THEN t \div 60 ELSE -((-t) \div 60)

\* int secs = session.totalDuration.count() % 60; the remainder has the
\* sign of the dividend.
Secs(t) == IF t >= 0 THEN t % 60 ELSE -((-t) % 60)

\* file << app << "," << mins << "m " << secs << "s\n";
LogLine(app, session) ==
    <<app, ",", Mins(session.totalDuration), "m ",
      Secs(session.totalDuration), "s">>

\* The loop at 54-58, visiting the entries in `order`.
LogLines(t, order) ==
    [i \in 1..Len(order) |-> LogLine(order[i], t[order[i]])]

\* The characters written before the date: a calendar emoji (U+1F4C5), a
\* space, "Date: ".
DatePrefix == "U+1F4C5 Date: "

\* What writeDailyLog streams into the file: the header line with the date
\* read at 53, then the lines of the entries.
DailyLog(t, order, date) ==
    [written |-> TRUE, header |-> <<DatePrefix, date>>,
     lines |-> LogLines(t, order)]

\* WriteDailyLog opening the file with std::ios::app.
WriteDailyLogAppending(files, reads, t, order) ==
    [files EXCEPT ![reads[1]] =
        IF @.written
        THEN [@ EXCEPT !.lines = @ \o LogLines(t, order)]
        ELSE DailyLog(t, order, reads[2])]

\* writeDailyLog: std::ofstream file(filename) creates the file named after
\* the date read at 50 or empties the one that exists, then the record is
\* written.
WriteDailyLog(files, reads, t, order) ==
    [files EXCEPT ![reads[1]] = DailyLog(t, order, reads[2])]

\* What the file system lets writeDailyLog do: open the file and write it.
Writable == {"ok"}
\* The same, or the file cannot be opened ("noopen"), or it is created or
\* emptied and no write reaches it ("nowrite").
FileOutcomes == {"ok", "noopen", "nowrite"}

\* A file that was created or emptied and received nothing.
EmptyLog == [written |-> TRUE, header |-> <<>>, lines |-> <<>>]

\* writeDailyLog when the file system answers `outcome`: the stream's state
\* is never tested, so the writes to a failed stream are dropped silently.
WriteDailyLogUnder(outcome, files, reads, t, order) ==
    IF outcome = "ok" THEN WriteDailyLog(files, reads, t, order)
    ELSE IF outcome = "noopen" THEN files
    ELSE [files EXCEPT ![reads[1]] = EmptyLog]

\* What the caller and the user learn of a writeDailyLog under `outcome`:
\* the function returns void and prints "Log saved to <filename>" whatever
\* the stream's state.
Announced(outcome) == "saved"

\* No writeDailyLog was made yet.
NoFlush ==
    [n |-> 0, reads |-> <<>>, found |-> NoLog, outcome |-> "", said |-> "",
     table |-> EmptyTable]

\* std::cout << " - " << std::setw(20) << std::left << app << ": " << mins
\* << "m " << secs << "s\n";
SummaryLine(app, session) ==
    <<" - ", app, ": ", Mins(session.totalDuration), "m ",
      Secs(session.totalDuration), "s">>

\* Nothing was printed yet.
NoSummary == [printed |-> FALSE, order |-> <<>>, lines |-> <<>>]

\* printSummary: one line per entry, visiting the entries in `order`.
PrintSummary(t, order) ==
    [printed |-> TRUE, order |-> order,
     lines |-> [i \in 1..Len(order) |-> SummaryLine(order[i], t[order[i]])]]

\* Switched with the comparison lost: every tick closes the session.
SwitchedAlways(front, current) == TRUE

\* if (frontApp != currentApp)
Switched(front, current) == front # current

\* Detached for a snapshot that is a reference to the table.
Aliased(copy, table) == table

\* The analyzer's snapshot is a map of its own (snapshot = *sharedSessions
\* copies every node): what it holds after main wrote `table`.
Detached(copy, table) == copy

\* FlushSource for a flush of the analyzer's last copy.
FlushSourceSnapshot == snapshot

\* The table main hands to writeDailyLog: the live one.
FlushSource == sessions

\* ---------------------------------------------------------- analyzeBehavior
\* The orders in which a range-for may visit the entries of an
\* unordered_map: the container leaves the order unspecified.
IterationOrders(t) ==
    {o \in [1..Cardinality(Keys(t)) -> Keys(t)] :
        \A i, j \in 1..Cardinality(Keys(t)) : i # j => o[i] # o[j]}

\* A double that is the quotient of two integers.
Quotient(n, d) == [num |-> n, den |-> d]
Zero == Quotient(0, 1)

\* The locals of analyzeBehavior before its loop.
LoopStart ==
    [totalSwitches |-> 0, totalFocusTime |-> 0, topApp |-> "",
     maxDuration |-> 0]

\* if (duration > maxDuration)
IsLonger(d, max) == d > max

\* LoopBody counting one switch for an entry, whatever its spans.
LoopBodyOneSwitch(acc, app, session) ==
    [totalSwitches |-> acc.totalSwitches + 1,
     totalFocusTime |-> acc.totalFocusTime + session.totalDuration,
     topApp |-> IF IsLonger(session.totalDuration, acc.maxDuration)
                THEN app ELSE acc.topApp,
     maxDuration |-> IF IsLonger(session.totalDuration, acc.maxDuration)
                     THEN session.totalDuration ELSE acc.maxDuration]

\* One pass of the loop at 85-94, over the entry (app, session).
LoopBody(acc, app, session) ==
    [totalSwitches |-> acc.totalSwitches + Len(session.focusDurations),
     totalFocusTime |-> acc.totalFocusTime + session.totalDuration,
     topApp |-> IF IsLonger(session.totalDuration, acc.maxDuration)
                THEN app ELSE acc.topApp,
     maxDuration |-> IF IsLonger(session.totalDuration, acc.maxDuration)
                     THEN session.totalDuration ELSE acc.maxDuration]

\* for (const auto& [app, session] : sessions), visiting in `order`.
RECURSIVE Loop(_, _, _)
Loop(acc, t, order) ==
    IF order = <<>> THEN acc
    ELSE Loop(LoopBody(acc, Head(order), t[Head(order)]), t, Tail(order))

\* AvgFocus with the integer quotient.
AvgFocusTruncated(total, switches) ==
    IF switches # 0 THEN Quotient(total \div switches, 1) ELSE Zero

\* totalSwitches ? totalFocusTime.count() / static_cast<double>(
\* totalSwitches) : 0
AvgFocus(total, switches) ==
    IF switches # 0 THEN Quotient(total, switches) ELSE Zero

\* FragmentationIndex without the guard.
FragmentationUnguarded(switches) == Quotient(100, switches)

\* FragmentationIndex with the quotient inverted.
FragmentationInverted(switches) ==
    IF switches > 0 THEN Quotient(switches, 100) ELSE Zero

\* (totalSwitches > 0 ? 100.0 / totalSwitches : 0)
FragmentationIndex(switches) ==
    IF switches > 0 THEN Quotient(100, switches) ELSE Zero

\* No analysis was made yet.
NoReport ==
    [made |-> FALSE, sessions |-> EmptyTable, topApp |-> "",
     maxDuration |-> 0, totalSwitches |-> 0, totalFocusTime |-> 0,
     avgFocus |-> Zero, fragmentation |-> Zero]

\* analyzeBehavior(sessions): the values it computes and streams to the
\* terminal (totalFocusTime is a local it only uses for the average), with
\* the table it was given.
AnalyzeBehavior(t, order) ==
    [made |-> TRUE,
     sessions |-> t,
     topApp |-> Loop(LoopStart, t, order).topApp,
     maxDuration |-> Loop(LoopStart, t, order).maxDuration,
     totalSwitches |-> Loop(LoopStart, t, order).totalSwitches,
     totalFocusTime |-> Loop(LoopStart, t, order).totalFocusTime,
     avgFocus |-> AvgFocus(Loop(LoopStart, t, order).totalFocusTime,
                           Loop(LoopStart, t, order).totalSwitches),
     fragmentation |->
        FragmentationIndex(Loop(LoopStart, t, order).totalSwitches)]

\* ------------------------------------------------------------ sessionMutex
\* CanLock for a mutex that is not waited for (try_lock, its answer unused).
CanLockUnchecked(m) == m \in {"free", "main", "analyzer"}

\* std::lock_guard<std::mutex> lock(sessionMutex): blocks until it is free.
CanLock(m) == m = "free"

\* ----------------------------------------------------------------- history
NoTick == [kind |-> "none", app |-> "", start |-> 0, issuedBefore |-> 0,
           table |-> EmptyTable]
NoShut == [left |-> FALSE, app |-> "", start |-> 0, issuedBefore |-> 0]

\* ------------------------------------------------ contact group manager
\* What the user may enter at the prompts of Add Contact.
Names == <<"Ann", "Bob">>

Phones == {"555-1", "555-2"}

\* The cities, in the order of std::string's operator<, the order of the map.
Cities == <<"Oslo", "Rome">>

\* struct Contact { name; phone; city; }
Contact(name, phone, city) == [name |-> name, phone |-> phone, city |-> city]

\* std::map<std::string, std::vector<Contact>> cityGroups, just declared.
NoGroups == <<>>

\* Nothing chosen yet: no input, no answer, nothing listed.
NoEntry ==
    [choice |-> 0, name |-> "", phone |-> "", city |-> "", said |-> "",
     listed |-> <<>>, count |-> 0]

\* The declarations of main, before the first menu.
BookInit ==
    /\ cityGroups = NoGroups
    /\ seen = {}
    /\ entered = NoEntry

\* --------------------------------------------------------------- the start
\* The clock readings main may start at: any fraction of a second.
StartInstants == 0..(TicksPerSecond - 1)

\* main up to the analyzer thread's launch: the initial poll, which the
\* provider resolved to one of `first`, and the open session starting at
\* Clock::now().
InitWith(first, head) ==
    /\ clock \in StartInstants
    /\ skew = 0
    /\ BookInit
    /\ stdinHead \in head
    /\ proc = "running"
    /\ pc = "sleep"
    /\ final = FALSE
    /\ wakeMain = clock + Sec(SamplerPeriod)
    /\ polls = 0
    /\ currentApp \in first
    /\ startTime = SystemNow
    /\ frontApp = ""
    /\ now = 0
    /\ duration = 0
    /\ sessions = EmptyTable
    /\ alive = TRUE
    /\ mutex = "free"
    /\ pcA = "sleep"
    /\ wakeA = clock + Sec(AnalyzerPeriod)
    /\ snapshot = EmptyTable
    /\ report = NoReport
    /\ summary = NoSummary
    /\ logFile = NoFiles
    /\ flushed = NoFlush
    /\ issued = <<>>
    /\ pre = EmptyTable
    /\ tick = NoTick
    /\ shut = NoShut
    /\ lastSnap = EmptyTable
    /\ snapInfo = [n |-> 0, issuedAt |-> 0, dangling |-> FALSE,
                   began |-> startTime]

\* The application in front when tracking starts is called "A": the
\* identifiers are interchangeable.
Init == InitWith({"A"}, {"none"})

\* ---------------------------------------------------------------- the world
\* The instants after `clock` at which a sleeping thread is due.
Due ==
    {w \in (IF pc = "sleep" THEN {wakeMain} ELSE {})
            \cup (IF pcA = "sleep" THEN {wakeA} ELSE {}) : w > clock}

Earliest(S) == CHOOSE w \in S : \A v \in S : w <= v

\* Time passes, up to the next instant a sleeping thread is due.
Tick ==
    /\ proc = "running"
    /\ Due # {}
    /\ Earliest(Due) <= Sec(MaxTime)
    /\ clock' = Earliest(Due)
    /\ UNCHANGED <<envVars, stdinHead, proc, mainVars, sessions, alive, mutex,
                   analyzerVars, outputVars, historyVars>>

\* Time passes, a fraction of a second.
Drift ==
    /\ proc = "running"
    /\ clock % TicksPerSecond < MaxDrift
    /\ clock < Sec(MaxTime)
    /\ clock' = clock + 1
    /\ UNCHANGED <<envVars, stdinHead, proc, mainVars, sessions, alive, mutex,
                   analyzerVars, outputVars, historyVars>>

\* The user types: Enter, or anything else first. std::cin.peek() does not
\* consume, so the first character stays the head of stdin.
UserInput ==
    /\ proc = "running"
    /\ stdinHead = "none"
    /\ stdinHead' \in {"enter", "other"}
    /\ UNCHANGED <<envVars, clock, proc, mainVars, sessions, alive, mutex,
                   analyzerVars, outputVars, historyVars>>

\* ------------------------------------------------------------------- main
\* std::this_thread::sleep_for(std::chrono::seconds(5)) returns.
MainWake(limit) ==
    /\ proc = "running"
    /\ pc = "sleep"
    /\ clock >= wakeMain
    /\ polls < limit
    /\ pc' = "poll"
    /\ tick' = NoTick
    /\ UNCHANGED <<envVars, clock, stdinHead, proc, final, wakeMain, polls, currentApp,
                   startTime, frontApp, now, duration, sessions, alive, mutex,
                   analyzerVars, outputVars, issued, pre, shut, lastSnap,
                   snapInfo>>

\* frontApp = getFrontmostApp(); if (frontApp != currentApp) { now =
\* Clock::now(); duration = duration_cast<Seconds>(now - startTime); ...
\* `names` is what the provider may answer, an identifier or Nil.
MainPoll(names) ==
    /\ proc = "running"
    /\ pc = "poll"
    /\ \E name \in names : \E id \in FromUTF8(name) :
        /\ tick' = [kind |-> IF id = Fault THEN "fault"
                             ELSE IF id # currentApp THEN "switch"
                             ELSE "same",
                    app |-> currentApp, start |-> startTime,
                    issuedBefore |-> Len(issued), table |-> sessions]
        /\ IF id = Fault
           THEN /\ proc' = "crashed"
                /\ UNCHANGED <<envVars, pc, frontApp, now, duration>>
           ELSE /\ proc' = proc
                /\ frontApp' = id
                /\ IF Switched(id, currentApp)
                   THEN /\ now' = SystemNow
                        /\ duration' = DurationCast(SystemNow - startTime)
                        /\ pc' = "lock"
                   ELSE /\ pc' = "peek"
                        /\ UNCHANGED <<envVars, now, duration>>
    /\ polls' = polls + 1
    /\ UNCHANGED <<envVars, clock, stdinHead, final, wakeMain, currentApp,
                   startTime, sessions, alive, mutex, analyzerVars, outputVars,
                   issued, pre, shut, lastSnap, snapInfo>>

\* { std::lock_guard<std::mutex> lock(sessionMutex);
MainLock ==
    /\ proc = "running"
    /\ pc = "lock"
    /\ CanLock(mutex)
    /\ mutex' = "main"
    /\ pc' = "name"
    /\ issued' = Append(issued, [app |-> currentApp, duration |-> duration])
    /\ pre' = sessions
    /\ UNCHANGED <<envVars, clock, stdinHead, proc, final, wakeMain, polls, currentApp,
                   startTime, frontApp, now, duration, sessions, alive,
                   analyzerVars, outputVars, tick, shut, lastSnap, snapInfo>>

\* sessions[currentApp].appName = currentApp;
MainName ==
    /\ proc = "running"
    /\ pc = "name"
    /\ sessions' = SetAppName(sessions, currentApp)
    /\ snapshot' = Detached(snapshot, sessions')
    /\ pc' = "total"
    /\ UNCHANGED <<envVars, clock, stdinHead, proc, final, wakeMain, polls, currentApp,
                   startTime, frontApp, now, duration, alive, mutex,
                   pcA, wakeA, report, outputVars, historyVars>>

\* sessions[currentApp].totalDuration += duration;
MainTotal ==
    /\ proc = "running"
    /\ pc = "total"
    /\ sessions' = AddTotal(sessions, currentApp, duration)
    /\ snapshot' = Detached(snapshot, sessions')
    /\ pc' = "push"
    /\ UNCHANGED <<envVars, clock, stdinHead, proc, final, wakeMain, polls, currentApp,
                   startTime, frontApp, now, duration, alive, mutex,
                   pcA, wakeA, report, outputVars, historyVars>>

\* sessions[currentApp].focusDurations.push_back(duration);
MainPush ==
    /\ proc = "running"
    /\ pc = "push"
    /\ sessions' = PushBack(sessions, currentApp, duration)
    /\ snapshot' = Detached(snapshot, sessions')
    /\ pc' = "unlock"
    /\ UNCHANGED <<envVars, clock, stdinHead, proc, final, wakeMain, polls, currentApp,
                   startTime, frontApp, now, duration, alive, mutex,
                   pcA, wakeA, report, outputVars, historyVars>>

\* MainUnlock for a lock taken with sessionMutex.lock() and never given
\* back.
MainUnlockForgotten ==
    /\ proc = "running"
    /\ pc = "unlock"
    /\ mutex' = mutex
    /\ pc' = IF final THEN "summary" ELSE "open"
    /\ UNCHANGED <<envVars, clock, stdinHead, proc, final, wakeMain, polls, currentApp,
                   startTime, frontApp, now, duration, sessions, alive,
                   analyzerVars, outputVars, historyVars>>

\* } the lock_guard's scope ends.
MainUnlock ==
    /\ proc = "running"
    /\ pc = "unlock"
    /\ mutex' = "free"
    /\ pc' = IF final THEN "summary" ELSE "open"
    /\ UNCHANGED <<envVars, clock, stdinHead, proc, final, wakeMain, polls, currentApp,
                   startTime, frontApp, now, duration, sessions, alive,
                   analyzerVars, outputVars, historyVars>>

\* MainOpen with a clock reading of its own for the new session:
\* AppSession{currentApp, Clock::now()}.
MainOpenReadsClock ==
    /\ proc = "running"
    /\ pc = "open"
    /\ currentApp' = frontApp
    /\ startTime' = SystemNow
    /\ pc' = "peek"
    /\ UNCHANGED <<envVars, clock, stdinHead, proc, final, wakeMain, polls, frontApp,
                   now, duration, sessions, alive, mutex, analyzerVars,
                   outputVars, historyVars>>

\* MainOpen without the new currentSession: the old start time stays.
MainOpenKeepsStart ==
    /\ proc = "running"
    /\ pc = "open"
    /\ currentApp' = frontApp
    /\ pc' = "peek"
    /\ UNCHANGED <<envVars, clock, stdinHead, proc, final, wakeMain, polls, frontApp,
                   startTime, now, duration, sessions, alive, mutex,
                   analyzerVars, outputVars, historyVars>>

\* currentApp = frontApp; currentSession = AppSession{currentApp, now};
MainOpen ==
    /\ proc = "running"
    /\ pc = "open"
    /\ currentApp' = frontApp
    /\ startTime' = now
    /\ pc' = "peek"
    /\ UNCHANGED <<envVars, clock, stdinHead, proc, final, wakeMain, polls, frontApp,
                   now, duration, sessions, alive, mutex, analyzerVars,
                   outputVars, historyVars>>

\* if (std::cin.peek() == '\n') break; peek blocks while stdin is empty.
\* Otherwise the loop starts over with sleep_for.
MainPeek ==
    /\ proc = "running"
    /\ pc = "peek"
    /\ stdinHead # "none"
    /\ IF stdinHead = "enter"
       THEN /\ pc' = "final"
            /\ UNCHANGED wakeMain
       ELSE /\ pc' = "sleep"
            /\ wakeMain' = clock + Sec(SamplerPeriod)
    /\ UNCHANGED <<envVars, clock, stdinHead, proc, final, polls, currentApp,
                   startTime, frontApp, now, duration, sessions, alive, mutex,
                   analyzerVars, outputVars, historyVars>>

\* auto now = Clock::now(); Seconds duration = duration_cast<Seconds>(now -
\* currentSession.startTime); after the loop.
MainFinal ==
    /\ proc = "running"
    /\ pc = "final"
    /\ now' = SystemNow
    /\ duration' = DurationCast(SystemNow - startTime)
    /\ final' = TRUE
    /\ pc' = "lock"
    /\ shut' = [left |-> TRUE, app |-> currentApp, start |-> startTime,
                issuedBefore |-> Len(issued)]
    /\ UNCHANGED <<envVars, clock, stdinHead, proc, wakeMain, polls, currentApp,
                   startTime, frontApp, sessions, alive, mutex, analyzerVars,
                   outputVars, issued, pre, tick, lastSnap, snapInfo>>

\* printSummary(sessions): one line per entry of the table, in the order the
\* table hands them out.
MainSummary ==
    /\ proc = "running"
    /\ pc = "summary"
    /\ \E order \in IterationOrders(sessions) :
          summary' = PrintSummary(sessions, order)
    /\ pc' = "log"
    /\ UNCHANGED <<envVars, clock, stdinHead, proc, final, wakeMain, polls, currentApp,
                   startTime, frontApp, now, duration, sessions, alive, mutex,
                   analyzerVars, logFile, flushed, historyVars>>

\* MainLog for a writeDailyLog that takes the table by reference and clears
\* it once the day is written.
MainLogClearing(reads, outcomes) ==
    /\ proc = "running"
    /\ pc = "log"
    /\ \E r \in reads : \E outcome \in outcomes :
        /\ logFile' = WriteDailyLogUnder(outcome, logFile, r, FlushSource,
                                         summary.order)
        /\ flushed' = [n |-> flushed.n + 1, reads |-> r,
                       found |-> logFile[r[1]], outcome |-> outcome,
                       said |-> Announced(outcome), table |-> FlushSource]
    /\ sessions' = EmptyTable
    /\ pc' = "return"
    /\ UNCHANGED <<envVars, clock, stdinHead, proc, final, wakeMain, polls, currentApp,
                   startTime, frontApp, now, duration, alive, mutex,
                   analyzerVars, summary, historyVars>>

\* writeDailyLog(sessions): `reads` is what the two calls of
\* getCurrentDateString may return, `outcomes` what the file system may
\* answer. The table was not modified since
\* printSummary visited it, so its entries come in the same order.
MainLog(reads, outcomes) ==
    /\ proc = "running"
    /\ pc = "log"
    /\ \E r \in reads : \E outcome \in outcomes :
        /\ logFile' = WriteDailyLogUnder(outcome, logFile, r, FlushSource,
                                         summary.order)
        /\ flushed' = [n |-> flushed.n + 1, reads |-> r,
                       found |-> logFile[r[1]], outcome |-> outcome,
                       said |-> Announced(outcome), table |-> FlushSource]
    /\ pc' = "return"
    /\ UNCHANGED <<envVars, clock, stdinHead, proc, final, wakeMain, polls, currentApp,
                   startTime, frontApp, now, duration, sessions, alive, mutex,
                   analyzerVars, summary, historyVars>>

\* return 0; the locals of main are destroyed, `sessions` among them. The
\* analyzer thread is detached and still runs.
MainReturn ==
    /\ proc = "running"
    /\ pc = "return"
    /\ alive' = FALSE
    /\ pc' = "returned"
    /\ UNCHANGED <<envVars, clock, stdinHead, proc, final, wakeMain, polls, currentApp,
                   startTime, frontApp, now, duration, sessions, mutex,
                   analyzerVars, outputVars, historyVars>>

\* The C runtime calls exit() after main returned: every thread ends.
ProcessExit ==
    /\ proc = "running"
    /\ pc = "returned"
    /\ proc' = "exited"
    /\ UNCHANGED <<envVars, clock, stdinHead, mainVars, sessions, alive, mutex,
                   analyzerVars, outputVars, historyVars>>

\* --------------------------------------------------------------- analyzer
\* sleep_for(std::chrono::seconds(30)) returns; snapshot is constructed.
AnalyzerWake ==
    /\ proc = "running"
    /\ pcA = "sleep"
    /\ clock >= wakeA
    /\ pcA' = "lock"
    /\ snapshot' = EmptyTable
    /\ UNCHANGED <<envVars, clock, stdinHead, proc, mainVars, sessions, alive, mutex,
                   wakeA, report, outputVars, historyVars>>

\* { std::lock_guard<std::mutex> lock(sessionMutex);
AnalyzerLock ==
    /\ proc = "running"
    /\ pcA = "lock"
    /\ CanLock(mutex)
    /\ mutex' = "analyzer"
    /\ pcA' = "copy"
    /\ UNCHANGED <<envVars, clock, stdinHead, proc, mainVars, sessions, alive, wakeA,
                   snapshot, report, outputVars, historyVars>>

\* What a read of the destroyed table can give: the bytes it held, or a table
\* whose freed nodes and vectors were reused (an entry's spans or total lost,
\* or no entry left).
DanglingRead(t) ==
    {t, EmptyTable}
    \cup {[t EXCEPT ![a].focusDurations = <<>>] : a \in Keys(t)}
    \cup {[t EXCEPT ![a].totalDuration = 0] : a \in Keys(t)}

\* CopyOf for a snapshot that counts the open session up to now.
CopyOfWithOpen(t) ==
    AddTotal(t, currentApp, (SystemNow - startTime) \div TicksPerSecond)

\* The copy assignment of unordered_map: a deep copy.
CopyOf(t) == t

\* snapshot = *sharedSessions; once main has returned the pointer dangles and
\* the read is undefined: any of DanglingRead, or a fault that ends the
\* process.
AnalyzerCopy ==
    /\ proc = "running"
    /\ pcA = "copy"
    /\ IF alive
       THEN /\ snapshot' = CopyOf(sessions)
            /\ proc' = proc
       ELSE \/ /\ snapshot' \in DanglingRead(sessions)
               /\ proc' = proc
            \/ /\ snapshot' = snapshot
               /\ proc' = "crashed"
    /\ pcA' = IF proc' = "crashed" THEN pcA ELSE "unlock"
    /\ lastSnap' = IF proc' = "crashed" THEN lastSnap ELSE snapshot'
    /\ snapInfo' = IF proc' = "crashed" THEN snapInfo
                   ELSE [n |-> snapInfo.n + 1, issuedAt |-> Len(issued),
                         dangling |-> ~alive, began |-> snapInfo.began]
    /\ UNCHANGED <<envVars, clock, stdinHead, mainVars, sessions, alive, mutex, wakeA,
                   report, outputVars, issued, pre, tick, shut>>

\* AnalyzerUnlock for a lock_guard whose scope holds analyzeBehavior too: the
\* mutex stays locked.
AnalyzerUnlockLate ==
    /\ proc = "running"
    /\ pcA = "unlock"
    /\ mutex' = mutex
    /\ pcA' = "analyze"
    /\ UNCHANGED <<envVars, clock, stdinHead, proc, mainVars, sessions, alive, wakeA,
                   snapshot, report, outputVars, historyVars>>

\* } the lock_guard's scope ends.
AnalyzerUnlock ==
    /\ proc = "running"
    /\ pcA = "unlock"
    /\ mutex' = "free"
    /\ pcA' = "analyze"
    /\ UNCHANGED <<envVars, clock, stdinHead, proc, mainVars, sessions, alive, wakeA,
                   snapshot, report, outputVars, historyVars>>

\* analyzeBehavior(snapshot); then the loop starts over with sleep_for.
AnalyzerAnalyze ==
    /\ proc = "running"
    /\ pcA = "analyze"
    /\ \E order \in IterationOrders(snapshot) :
          report' = AnalyzeBehavior(snapshot, order)
    /\ pcA' = "sleep"
    /\ wakeA' = clock + Sec(AnalyzerPeriod)
    /\ UNCHANGED <<envVars, clock, stdinHead, proc, mainVars, sessions, alive, mutex,
                   snapshot, outputVars, historyVars>>

\* ------------------------------------------------------- the specification
MainRest ==
    \/ MainLock
    \/ MainName
    \/ MainTotal
    \/ MainPush
    \/ MainUnlock
    \/ MainOpen
    \/ MainPeek
    \/ MainFinal
    \/ MainSummary
    \/ MainLog(SameDay, Writable)
    \/ MainReturn
    \/ ProcessExit

AnalyzerStep ==
    \/ AnalyzerWake
    \/ AnalyzerLock
    \/ AnalyzerCopy
    \/ AnalyzerUnlock
    \/ AnalyzerAnalyze

Next ==
    \/ Tick
    \/ Drift
    \/ UserInput
    \/ MainWake(MaxPolls)
    \/ MainPoll(Apps \cup {Nil})
    \/ MainRest
    \/ AnalyzerStep

Spec == Init /\ [][Next]_vars


\* ------------------------------------------------------- threads scheduled
\* The operating system runs every thread that can run: main does not stay
\* for ever before a step it can take, nor does the analyzer.
\* Time passes in whole sleeps here.
LiveNext ==
    \/ Tick
    \/ UserInput
    \/ MainWake(MaxPolls)
    \/ MainPoll(Apps)
    \/ MainRest
    \/ AnalyzerStep

Live == Init /\ [][LiveNext]_vars /\ WF_vars(MainRest) /\ WF_vars(AnalyzerStep)

\* The same steps with no assumption on the scheduling: every clock reading
\* is a whole number of seconds.
WholeSeconds == Init /\ [][LiveNext]_vars

\* ------------------------------------------------- the wall clock adjusted
\* The seconds the wall clock is set forward or back by.
ClockStep == 7

\* The system sets the wall clock (NTP, the user): system_clock jumps, time
\* and the sleeps, which run on the steady clock, do not. Once in a run.
ClockSet ==
    /\ proc = "running"
    /\ skew = 0
    /\ skew' \in {Sec(ClockStep), -Sec(ClockStep)}
    /\ UNCHANGED <<bookVars, clock, stdinHead, proc, mainVars, sessions, alive,
                   mutex, analyzerVars, outputVars, historyVars>>

AdjustedNext ==
    \/ Next
    \/ ClockSet

Adjusted == Init /\ [][AdjustedNext]_vars

\* ------------------------------------------------------------- a line typed
\* The user types a line and ends it with Enter: its first character is what
\* std::cin.peek() finds from then on, the Enter stays behind it.
UserLine ==
    /\ proc = "running"
    /\ stdinHead = "none"
    /\ stdinHead' = "line"
    /\ UNCHANGED <<envVars, clock, proc, mainVars, sessions, alive, mutex,
                   analyzerVars, outputVars, historyVars>>

TypingNext ==
    \/ Next
    \/ UserLine

Typing == Init /\ [][TypingNext]_vars

\* -------------------------------------------------------------- scenario A
\* The identifiers the provider returns in scenario A, the initial poll first.
ScenarioFeed == <<"A", "A", "B", "B", "B", "C">>

\* Time passes exactly until main's sleep_for is over: a 5-second tick.
ScenarioTick ==
    /\ proc = "running"
    /\ pc = "sleep"
    /\ clock < wakeMain
    /\ clock' = wakeMain
    /\ UNCHANGED <<envVars, stdinHead, proc, mainVars, sessions, alive, mutex,
                   analyzerVars, outputVars, historyVars>>

ScenarioInit == InitWith({ScenarioFeed[1]}, {"none"})

ScenarioNext ==
    \/ ScenarioTick
    \/ UserInput
    \/ MainWake(Len(ScenarioFeed) - 1)
    \/ MainPoll({ScenarioFeed[polls + 2]})
    \/ MainRest
    \/ AnalyzerStep

ScenarioA == ScenarioInit /\ [][ScenarioNext]_vars

\* ------------------------------------------------- analyzeBehavior, alone
\* The applications of the tables handed to analyzeBehavior.
AnalysisApps == {"A", "Chrome", "Terminal"}

\* The spans of a session of such a table, each a whole number of seconds.
AnalysisSpans ==
    {<<0>>, <<0, 0>>, <<40>>, <<20, 20>>, <<125>>, <<60, 60, 5>>}

\* The tables: any of the applications absent, or present with the total of
\* its spans.
AnalysisTables ==
    {t \in [AllApps -> {Absent} \cup
                       {AppSession(a, SumSeq(sp), sp) :
                           a \in AnalysisApps, sp \in AnalysisSpans}] :
        \A a \in AllApps :
            /\ t[a].present => t[a].appName = a
            /\ a \notin AnalysisApps => ~t[a].present}

\* The analyzer thread is at line 119 with any of the tables as its
\* snapshot; main sleeps.
AnalysisInit ==
    /\ clock = Sec(AnalyzerPeriod)
    /\ skew = 0
    /\ BookInit
    /\ stdinHead = "none"
    /\ proc = "running"
    /\ pc = "sleep"
    /\ final = FALSE
    /\ wakeMain = clock + Sec(SamplerPeriod)
    /\ polls = 0
    /\ currentApp = "A"
    /\ startTime = SystemNow
    /\ frontApp = ""
    /\ now = 0
    /\ duration = 0
    /\ sessions = EmptyTable
    /\ alive = TRUE
    /\ mutex = "free"
    /\ pcA = "analyze"
    /\ wakeA = clock
    /\ snapshot \in AnalysisTables
    /\ report = NoReport
    /\ summary = NoSummary
    /\ logFile = NoFiles
    /\ flushed = NoFlush
    /\ issued = <<>>
    /\ pre = EmptyTable
    /\ tick = NoTick
    /\ shut = NoShut
    /\ lastSnap = snapshot
    /\ snapInfo = [n |-> 1, issuedAt |-> 0, dangling |-> FALSE,
                   began |-> startTime]

AnalysisNext == AnalyzerAnalyze

Analysis == AnalysisInit /\ [][AnalysisNext]_vars

\* --------------------------------------------------- writeDailyLog, alone
\* The runs of the program in one working directory.
MaxRuns == 2

\* The totals of the tables main ends a run with.
ChromeTotals == {0, 59, 125}
TerminalTotals == {40, 60, 119}

\* The tables: Chrome and Terminal, each absent or with one of its totals.
FlushTables ==
    {[a \in AllApps |-> IF a = "Chrome" THEN c
                        ELSE IF a = "Terminal" THEN t ELSE Absent] :
        c \in {Absent} \cup
              {AppSession("Chrome", x, <<x>>) : x \in ChromeTotals},
        t \in {Absent} \cup
              {AppSession("Terminal", x, <<x>>) : x \in TerminalTotals}}

\* main is at line 175 with any of the tables, its final commit made; no
\* log file exists.
FlushInit ==
    /\ clock = Sec(SamplerPeriod)
    /\ skew = 0
    /\ BookInit
    /\ stdinHead = "enter"
    /\ proc = "running"
    /\ pc = "summary"
    /\ final = TRUE
    /\ wakeMain = clock
    /\ polls = 1
    /\ currentApp = "Chrome"
    /\ startTime = 0
    /\ frontApp = "Chrome"
    /\ now = clock
    /\ duration = 0
    /\ sessions \in FlushTables
    /\ alive = TRUE
    /\ mutex = "free"
    /\ pcA = "sleep"
    /\ wakeA = Sec(AnalyzerPeriod)
    /\ snapshot = EmptyTable
    /\ report = NoReport
    /\ summary = NoSummary
    /\ logFile = NoFiles
    /\ flushed = NoFlush
    /\ issued = <<>>
    /\ pre = EmptyTable
    /\ tick = NoTick
    /\ shut = NoShut
    /\ lastSnap = EmptyTable
    /\ snapInfo = [n |-> 0, issuedAt |-> 0, dangling |-> FALSE,
                   began |-> startTime]

\* The program is run again in the same directory and reaches line 175 with
\* any of the tables; the files stay.
NextRun ==
    /\ proc = "running"
    /\ pc = "return"
    /\ flushed.n < MaxRuns
    /\ sessions' \in FlushTables
    /\ summary' = NoSummary
    /\ pc' = "summary"
    /\ UNCHANGED <<envVars, clock, stdinHead, proc, final, wakeMain, polls, currentApp,
                   startTime, frontApp, now, duration, alive, mutex,
                   analyzerVars, logFile, flushed, historyVars>>

FlushNext ==
    \/ MainSummary
    \/ MainLog(DateReads, FileOutcomes)
    \/ NextRun

Flush == FlushInit /\ [][FlushNext]_vars

\* ---------------------------------------- contact group manager, the menu
trackerVars ==
    <<clock, skew, stdinHead, proc, mainVars, sessions, alive, mutex,
      analyzerVars, outputVars, historyVars>>

Range(q) == {q[i] : i \in 1..Len(q)}

\* while(true) has not been left.
BookOpen == entered.said # "exit"

\* std::pair<std::string, std::string> identity = {name, phone};
Identity(name, phone, city) == <<name, phone>>

\* cityGroups[city].push_back(c): operator[] creates the vector of a city
\* the map has not got.
PushContact(groups, c) ==
    IF c.city \in DOMAIN groups
    THEN [groups EXCEPT ![c.city] = Append(@, c)]
    ELSE groups @@ (c.city :> <<c>>)

\* AddContact without seen.insert(identity).
AddContactUnseen(name, phone, city) ==
    /\ BookOpen
    /\ IF Identity(name, phone, city) \notin seen
       THEN /\ cityGroups' = PushContact(cityGroups, Contact(name, phone, city))
            /\ seen' = seen
            /\ entered' = [NoEntry EXCEPT !.choice = 1, !.name = name,
                                          !.phone = phone, !.city = city,
                                          !.said = "added"]
       ELSE /\ UNCHANGED <<cityGroups, seen>>
            /\ entered' = [NoEntry EXCEPT !.choice = 1, !.name = name,
                                          !.phone = phone, !.city = city,
                                          !.said = "exists"]
    /\ UNCHANGED trackerVars

\* choice == 1: the three prompts, then the contact is stored unless its
\* identity was seen.
AddContact(name, phone, city) ==
    /\ BookOpen
    /\ IF Identity(name, phone, city) \notin seen
       THEN /\ cityGroups' = PushContact(cityGroups, Contact(name, phone, city))
            /\ seen' = seen \cup {Identity(name, phone, city)}
            /\ entered' = [NoEntry EXCEPT !.choice = 1, !.name = name,
                                          !.phone = phone, !.city = city,
                                          !.said = "added"]
       ELSE /\ UNCHANGED <<cityGroups, seen>>
            /\ entered' = [NoEntry EXCEPT !.choice = 1, !.name = name,
                                          !.phone = phone, !.city = city,
                                          !.said = "exists"]
    /\ UNCHANGED trackerVars

\* What the range-for over the map prints: the people city by city, the
\* cities from the i-th on.
RECURSIVE ListedFrom(_, _)
ListedFrom(groups, i) ==
    IF i > Len(Cities) THEN <<>>
    ELSE (IF Cities[i] \in DOMAIN groups THEN groups[Cities[i]] ELSE <<>>)
         \o ListedFrom(groups, i + 1)

\* displayAllContacts(cityGroups)
Listed(groups) == ListedFrom(groups, 1)

\* choice == 2
ShowAll ==
    /\ BookOpen
    /\ entered' = [NoEntry EXCEPT !.choice = 2, !.said = "shown",
                                  !.listed = Listed(cityGroups)]
    /\ UNCHANGED <<cityGroups, seen, trackerVars>>

\* a.name < b.name
NameLess(a, b) ==
    \E i, j \in 1..Len(Names) : i < j /\ Names[i] = a.name /\ Names[j] = b.name

\* What std::sort may leave of `people`: a permutation in which no contact
\* comes before one of a smaller name; the order of equal names is any.
SortedByName(people) ==
    {q \in {[i \in 1..Len(people) |-> people[f[i]]] :
                f \in Permutations(1..Len(people))} :
        \A i, j \in 1..Len(q) : i < j => ~NameLess(q[j], q[i])}

\* sortContactsByName(cityGroups)
SortContactsByName(groups) ==
    {g \in [DOMAIN groups ->
                UNION {SortedByName(groups[c]) : c \in DOMAIN groups}] :
        \A c \in DOMAIN groups : g[c] \in SortedByName(groups[c])}

\* choice == 3: sort, then display.
SortByName ==
    /\ BookOpen
    /\ cityGroups' \in SortContactsByName(cityGroups)
    /\ entered' = [NoEntry EXCEPT !.choice = 3, !.said = "shown",
                                  !.listed = Listed(cityGroups')]
    /\ UNCHANGED <<seen, trackerVars>>

\* choice == 4: searchCity(cityGroups)
SearchCity(city) ==
    /\ BookOpen
    /\ entered' = IF city \in DOMAIN cityGroups
                  THEN [NoEntry EXCEPT !.choice = 4, !.city = city,
                                       !.said = "shown",
                                       !.listed = cityGroups[city]]
                  ELSE [NoEntry EXCEPT !.choice = 4, !.city = city,
                                       !.said = "none"]
    /\ UNCHANGED <<cityGroups, seen, trackerVars>>

\* choice == 5: countCity(cityGroups)
CountCity(city) ==
    /\ BookOpen
    /\ entered' = [NoEntry EXCEPT !.choice = 5, !.city = city,
                                  !.said = "counted",
                                  !.count = IF city \in DOMAIN cityGroups
                                            THEN Len(cityGroups[city])
                                            ELSE 0]
    /\ UNCHANGED <<cityGroups, seen, trackerVars>>

\* choice == 6, or a choice that is no number: the loop is left.
ExitBook ==
    /\ BookOpen
    /\ entered' = [NoEntry EXCEPT !.choice = 6, !.said = "exit"]
    /\ UNCHANGED <<cityGroups, seen, trackerVars>>

\* Any other number.
InvalidOption ==
    /\ BookOpen
    /\ entered' = [NoEntry EXCEPT !.choice = 7, !.said = "invalid"]
    /\ UNCHANGED <<cityGroups, seen, trackerVars>>

ContactsInit == Init

ContactsNext ==
    \/ \E name \in Range(Names), phone \in Phones, city \in Range(Cities) :
          AddContact(name, phone, city)
    \/ ShowAll
    \/ SortByName
    \/ \E city \in Range(Cities) : SearchCity(city)
    \/ \E city \in Range(Cities) : CountCity(city)
    \/ ExitBook
    \/ InvalidOption

Contacts == ContactsInit /\ [][ContactsNext]_vars

\* ------------------------------------------------------------ the contract
\* commit(appName, duration) of the SessionStore: one indivisible update.
Commit(t, app, d) ==
    [t EXCEPT ![app] =
        AppSession(app,
                   (IF t[app].present THEN t[app].totalDuration ELSE 0) + d,
                   Append(IF t[app].present THEN t[app].focusDurations
                          ELSE <<>>, d))]

\* The table after the commits of `cs`, in order, from the empty table.
RECURSIVE ApplyAll(_)
ApplyAll(cs) ==
    IF cs = <<>> THEN EmptyTable
    ELSE Commit(ApplyAll(SubSeq(cs, 1, Len(cs) - 1)),
                cs[Len(cs)].app, cs[Len(cs)].duration)

\* totalDuration == sum(focusDurations) in every session of t.
Consistent(t) ==
    \A a \in Keys(t) : t[a].totalDuration = SumSeq(t[a].focusDurations)

\* t is the table after some prefix of the commits main issued.
AfterSomePrefix(t) ==
    \E k \in 0..Len(issued) : t = ApplyAll(SubSeq(issued, 1, k))

\* The analyzer holds a copy it made in this iteration.
HoldsSnapshot == pcA \in {"unlock", "analyze"}

\* ------------------------------------------------------------------ claims

\* C1: in every snapshot the analyzer obtains, at any point of any
\* interleaving, each session has totalDuration == sum of focusDurations.
C1_SnapshotConsistent == HoldsSnapshot => Consistent(snapshot)

\* C1, for the copies made while main has not returned.
C1_WhileTableAlive ==
    (HoldsSnapshot /\ ~snapInfo.dangling) => Consistent(snapshot)

\* C2: every snapshot equals the table after some prefix of the commits the
\* sampler issued; no part of a commit is visible alone.
C2_Linearizable == HoldsSnapshot => AfterSomePrefix(snapshot)

\* C2, for the copies made while main has not returned.
C2_WhileTableAlive ==
    (HoldsSnapshot /\ ~snapInfo.dangling) => AfterSomePrefix(snapshot)

\* C3: a snapshot, once returned, keeps the contents it had at the copy,
\* whatever main commits while the analyzer still holds it.
C3_SnapshotStable == HoldsSnapshot => snapshot = lastSnap

\* C3's case: the analyzer holds a snapshot and main has completed a commit
\* since the copy.
C3_Witness ==
    /\ pcA = "analyze"
    /\ ~snapInfo.dangling
    /\ Len(issued) > snapInfo.issuedAt
    /\ mutex = "free"
    /\ sessions # snapshot

\* C4: two snapshots with no commit between them are equal tables.
C4_SnapshotIdempotent ==
    [][(pcA = "copy" /\ pcA' = "unlock" /\ snapInfo.n > 0
        /\ Len(issued) = snapInfo.issuedAt) => snapshot' = lastSnap]_vars

\* C4, for the copies made while main has not returned.
C4_WhileTableAlive ==
    [][(pcA = "copy" /\ pcA' = "unlock" /\ snapInfo.n > 0 /\ alive
        /\ Len(issued) = snapInfo.issuedAt) => snapshot' = lastSnap]_vars

\* C5: commit(appName, duration) appends duration to that application's
\* focusDurations and adds it to its totalDuration, creating the session if
\* the name was absent, and leaves every other session unchanged.
C5_CommitEffect ==
    pc = "unlock" =>
        /\ sessions[currentApp].present
        /\ sessions[currentApp].appName = currentApp
        /\ sessions[currentApp].totalDuration =
             (IF pre[currentApp].present THEN pre[currentApp].totalDuration
              ELSE 0) + duration
        /\ sessions[currentApp].focusDurations =
             (IF pre[currentApp].present THEN pre[currentApp].focusDurations
              ELSE <<>>) \o <<duration>>
        /\ \A a \in AllApps \ {currentApp} : sessions[a] = pre[a]

\* C5's case: a commit into a session that an earlier commit created, beside
\* the session of another application.
C5_Witness ==
    /\ pc = "unlock"
    /\ pre[currentApp].present
    /\ pre[currentApp].totalDuration > 0
    /\ Keys(pre) \ {currentApp} # {}
    /\ duration > 0

\* The last commit main issued.
LastIssued == issued[Len(issued)]

\* d is the whole seconds of an elapsed time of e clock units, the fraction
\* dropped.
WholeSecondsOf(d, e) ==
    IF e >= 0
    THEN d * TicksPerSecond <= e /\ e < (d + 1) * TicksPerSecond
    ELSE (d - 1) * TicksPerSecond < e /\ e <= d * TicksPerSecond

\* Main has finished the iteration of a poll that found another identifier.
AfterSwitchTick == pc = "peek" /\ tick.kind = "switch"

\* What C6 says of a tick that found another identifier, but for the
\* duration: one commit, under the previous identifier, and the new
\* identifier open from the instant that closed the previous session.
SwitchCommitsPrevious ==
    /\ Len(issued) = tick.issuedBefore + 1
    /\ LastIssued.app = tick.app
    /\ LastIssued.app # frontApp
    /\ LastIssued.duration = duration
    /\ sessions = Commit(tick.table, tick.app, duration)
    /\ currentApp = frontApp
    /\ startTime = now

\* C6 as stated: on a tick whose polled identifier differs from the open
\* application, exactly one commit is made, under the previous identifier,
\* with duration equal to the time elapsed since the open session started;
\* the new identifier is then open from the instant the previous one closed.
C6_SwitchCommitsElapsed ==
    AfterSwitchTick =>
        /\ SwitchCommitsPrevious
        /\ duration * TicksPerSecond = now - tick.start

\* C6 as amended: the duration is the whole seconds of the difference
\* between the clock reading at the switch and the open session's start.
C6_SwitchCommitsWholeSeconds ==
    AfterSwitchTick =>
        /\ SwitchCommitsPrevious
        /\ WholeSecondsOf(duration, now - tick.start)

\* C6's case: a switch closed a span that is no whole number of seconds.
C6_Witness ==
    /\ AfterSwitchTick
    /\ (now - tick.start) % TicksPerSecond # 0
    /\ Keys(tick.table) # {}

\* C7: on a tick whose polled identifier equals the open application, the
\* table, the open application and its start time stay as they were; a span
\* is committed only after a switch or at shutdown.
C7_SameTickChangesNothing ==
    /\ (pc \in {"peek", "sleep"} /\ tick.kind = "same") =>
          /\ sessions = tick.table
          /\ currentApp = tick.app
          /\ startTime = tick.start
          /\ Len(issued) = tick.issuedBefore
    /\ mutex = "main" => (tick.kind = "switch" \/ final)

\* C7's case: the same identifier was polled while a span was running and
\* the table held an earlier session.
C7_Witness ==
    /\ pc = "peek"
    /\ tick.kind = "same"
    /\ clock > startTime
    /\ Keys(sessions) # {}

\* Main has left its loop and finished the commit that follows it.
AfterFinalCommit == pc \in {"summary", "log", "return", "returned"}

\* What C8 says of shutdown, but for the duration: one commit, for the
\* application that was open, made before main goes on to terminate.
FinalCommitsOpen ==
    /\ shut.left
    /\ Len(issued) = shut.issuedBefore + 1
    /\ LastIssued.app = shut.app
    /\ shut.app = currentApp
    /\ LastIssued.duration = duration
    /\ sessions = Commit(pre, shut.app, duration)
    /\ mutex # "main"

\* C8 as stated: at shutdown the sampler makes exactly one final commit for
\* the open application, with the time elapsed since that session opened,
\* before it terminates; it never terminates without it.
C8_FinalCommitElapsed ==
    /\ proc = "exited" => AfterFinalCommit
    /\ AfterFinalCommit =>
          /\ FinalCommitsOpen
          /\ duration * TicksPerSecond = now - shut.start

\* C8 as amended: the duration is the whole seconds of the difference
\* between the clock reading after the loop and the open session's start.
C8_FinalCommitWholeSeconds ==
    /\ proc = "exited" => AfterFinalCommit
    /\ AfterFinalCommit =>
          /\ FinalCommitsOpen
          /\ WholeSecondsOf(duration, now - shut.start)

\* C8's case: main returned after a final commit of a span that is no whole
\* number of seconds, a switch having been committed before.
C8_Witness ==
    /\ pc = "returned"
    /\ (now - shut.start) % TicksPerSecond # 0
    /\ Len(issued) >= 2

\* C9: the final flush happens after the sampler's final commit and writes
\* the table that includes it; no commit follows the flush.
C9_FlushAfterFinalCommit ==
    \A d \in DateSet :
        logFile[d].written =>
            /\ shut.left
            /\ mutex # "main"
            /\ Len(issued) = shut.issuedBefore + 1
            /\ LastIssued.app = shut.app
            /\ \E order \in IterationOrders(ApplyAll(issued)) :
                  logFile[d].lines = LogLines(ApplyAll(issued), order)

\* C9's case: the log was written after a final commit of a span of at least
\* a second that followed a switch.
C9_Witness ==
    /\ flushed.n > 0
    /\ logFile[flushed.reads[1]].written
    /\ Len(issued) >= 2
    /\ LastIssued.duration > 0
    /\ \E i \in 1..Len(logFile[flushed.reads[1]].lines) :
          /\ logFile[flushed.reads[1]].lines[i][1] = shut.app
          /\ logFile[flushed.reads[1]].lines[i][5] > 0

\* The table scenario A ends with.
ScenarioTable ==
    [EmptyTable EXCEPT !["A"] = AppSession("A", 10, <<10>>),
                       !["B"] = AppSession("B", 15, <<15>>)]

\* C10: observing [A, A, B, B, B, C] at a 5-second tick, the switches are
\* detected at tick 3 (10s on A) and tick 6 (15s on B); after the run A's
\* total is 10s, B's 15s, and C is open with nothing committed for it.
C10_ScenarioA ==
    /\ tick.kind = "switch" =>
          \/ polls + 1 = 3 /\ tick.app = "A" /\ duration = 10
          \/ polls + 1 = 6 /\ tick.app = "B" /\ duration = 15
    /\ (polls + 1 = Len(ScenarioFeed) /\ pc \in {"peek", "sleep"}) =>
          /\ sessions = ScenarioTable
          /\ currentApp = "C"
          /\ ~sessions["C"].present
          /\ issued = <<[app |-> "A", duration |-> 10],
                        [app |-> "B", duration |-> 15]>>

\* C10's case: the six identifiers were observed and main sleeps again.
C10_Witness ==
    /\ polls + 1 = Len(ScenarioFeed)
    /\ pc = "sleep"
    /\ frontApp = "C"

\* C11: a poll at which the provider cannot resolve the frontmost
\* application yields the identifier "Unknown" for that tick, and the
\* sampler keeps running: the tick does not fail and the process goes on.
C11_UnresolvedIsUnknown ==
    [][MainPoll({Nil}) => (proc' = "running" /\ frontApp' = "Unknown")]_vars

\* The entries of a table with the largest totalDuration.
Longest(t) ==
    {a \in Keys(t) : \A b \in Keys(t) : t[a].totalDuration >= t[b].totalDuration}

\* The sum of f over the set S.
RECURSIVE SumOver(_, _)
SumOver(S, f) ==
    IF S = {} THEN 0
    ELSE LET a == CHOOSE x \in S : TRUE IN f[a] + SumOver(S \ {a}, f)

\* C12: the analysis of an empty snapshot gives totalSwitches = 0,
\* avgFocusSeconds = 0, fragmentationIndex = 0, topAppDuration = 0 and no
\* top application; it is no error.
C12_EmptySnapshotNeutral ==
    (report.made /\ Keys(report.sessions) = {}) =>
        /\ proc = "running"
        /\ report.totalSwitches = 0
        /\ report.avgFocus.num = 0 /\ report.avgFocus.den # 0
        /\ report.fragmentation.num = 0 /\ report.fragmentation.den # 0
        /\ report.maxDuration = 0
        /\ report.topApp = ""

\* C12's case: an empty snapshot was analysed.
C12_Witness ==
    /\ report.made
    /\ Keys(report.sessions) = {}
    /\ pcA = "sleep"

\* C13: for every non-empty snapshot, topApp is a key of the snapshot whose
\* totalDuration is the largest of the snapshot, and topAppDuration is that
\* largest total; also when every total is zero.
C13_TopAppIsLongest ==
    (report.made /\ Keys(report.sessions) # {}) =>
        /\ report.topApp \in Longest(report.sessions)
        /\ report.maxDuration = report.sessions[report.topApp].totalDuration

\* The applications in the order of std::string's operator<.
Lexicographic == <<"A", "B", "C", "Chrome", "Terminal">>

\* The first of the applications of S in lexicographic order.
Smallest(S) ==
    Lexicographic[CHOOSE i \in 1..Len(Lexicographic) :
                    /\ Lexicographic[i] \in S
                    /\ \A j \in 1..(i - 1) : Lexicographic[j] \notin S]

\* C14: when several entries share the largest totalDuration, topApp is the
\* lexicographically smallest appName among them, whatever the order in
\* which the table hands out its entries.
C14_TieGoesToSmallestName ==
    (report.made /\ Cardinality(Longest(report.sessions)) > 1) =>
        report.topApp = Smallest(Longest(report.sessions))

\* Scenario B: Chrome, 125 s in 3 spans; Terminal, 40 s in 1 span.
ScenarioB ==
    [EmptyTable EXCEPT
        !["Chrome"] = AppSession("Chrome", 125, <<60, 60, 5>>),
        !["Terminal"] = AppSession("Terminal", 40, <<40>>)]

\* The sum of the totals and the number of the spans of a table.
SumOfTotals(t) ==
    SumOver(Keys(t), [a \in AllApps |-> t[a].totalDuration])
NumberOfSpans(t) ==
    SumOver(Keys(t), [a \in AllApps |-> Len(t[a].focusDurations)])

\* C15: totalFocusTime is the sum of totalDuration over the entries of the
\* snapshot and totalSwitches the sum of the lengths of their
\* focusDurations; scenario B gives topApp Chrome, 165 s and 4 switches.
C15_SumsOverEntries ==
    report.made =>
        /\ report.totalFocusTime = SumOfTotals(report.sessions)
        /\ report.totalSwitches = NumberOfSpans(report.sessions)
        /\ report.sessions = ScenarioB =>
              /\ report.topApp = "Chrome"
              /\ report.totalFocusTime = 165
              /\ report.totalSwitches = 4

\* C15's case: the snapshot of scenario B was analysed.
C15_Witness ==
    /\ report.made
    /\ report.sessions = ScenarioB
    /\ pcA = "sleep"

\* C16: avgFocusSeconds is the quotient totalFocusTime / totalSwitches, not
\* truncated (165 / 4 = 41.25), when totalSwitches > 0 and 0 otherwise; no
\* division by zero is made.
C16_AvgFocusIsQuotient ==
    report.made =>
        /\ report.avgFocus.den # 0
        /\ IF NumberOfSpans(report.sessions) > 0
           THEN report.avgFocus.num * NumberOfSpans(report.sessions) =
                    SumOfTotals(report.sessions) * report.avgFocus.den
           ELSE report.avgFocus.num = 0
        /\ report.sessions = ScenarioB =>
              report.avgFocus.num * 100 = 4125 * report.avgFocus.den

\* C16's case: an analysis whose quotient is no whole number, as that of
\* scenario B.
C16_Witness ==
    /\ report.made
    /\ report.totalSwitches > 0
    /\ report.totalFocusTime % report.totalSwitches # 0
    /\ report.sessions = ScenarioB

\* C17: fragmentationIndex is exactly 100 / totalSwitches when totalSwitches
\* > 0 (25 for 4 switches, less for more switches) and 0 when totalSwitches
\* is 0.
C17_FragmentationIsHundredOverSwitches ==
    report.made =>
        /\ report.fragmentation.den # 0
        /\ IF NumberOfSpans(report.sessions) > 0
           THEN report.fragmentation.num * NumberOfSpans(report.sessions) =
                    100 * report.fragmentation.den
           ELSE report.fragmentation.num = 0
        /\ NumberOfSpans(report.sessions) = 4 =>
              report.fragmentation.num = 25 * report.fragmentation.den

\* C17's case: an analysis of a snapshot with 4 switches.
C17_Witness ==
    /\ report.made
    /\ report.totalSwitches = 4
    /\ report.sessions = ScenarioB
    /\ report.fragmentation # Zero

\* The file holds one line for every entry of t, with the minutes and
\* seconds of its total, and no other line.
Serializes(file, t) ==
    /\ file.written
    /\ Len(file.lines) = Cardinality(Keys(t))
    /\ \A a \in Keys(t) :
          \E i \in 1..Len(file.lines) :
              /\ file.lines[i][1] = a
              /\ file.lines[i][3] * 60 + file.lines[i][5] =
                    t[a].totalDuration

\* writeDailyLog has just returned.
Flushed == pc = "return" /\ flushed.n > 0

\* The same, and the file system let it open and write the file.
FlushedOk == Flushed /\ flushed.outcome = "ok"

\* C18: each flush overwrites the record of its date: after a flush of S1
\* and then of a different S2 for the same date, the file holds exactly the
\* serialization of S2; nothing is appended.
C18_FlushOverwrites ==
    FlushedOk => Serializes(logFile[flushed.reads[1]], sessions)

\* C18's case: the second flush found the file of an earlier flush of the
\* same date, written from another table.
C18_Witness ==
    /\ FlushedOk
    /\ flushed.n = 2
    /\ flushed.found.written
    /\ ~Serializes(flushed.found, sessions)
    /\ Keys(sessions) # {}

\* The lines name their applications in lexicographic order.
InLexicographicOrder(lines) ==
    \A i \in 1..(Len(lines) - 1) :
        lines[i][1] = Smallest({lines[j][1] : j \in i..Len(lines)})

\* Scenario C: Chrome 125 s, Terminal 40 s.
ScenarioC ==
    [EmptyTable EXCEPT !["Chrome"] = AppSession("Chrome", 125, <<125>>),
                       !["Terminal"] = AppSession("Terminal", 40, <<40>>)]

\* C19: a flush writes a record whose first line is exactly
\* "Date: YYYY-MM-DD", followed by exactly one line
\* "<appName>,<minutes>m <seconds>s" per entry in lexicographic order of
\* appName: {Chrome: 125 s, Terminal: 40 s} for 2024-01-01 yields
\* "Date: 2024-01-01", "Chrome,2m 5s", "Terminal,0m 40s" and nothing else.
C19_RecordFormat ==
    FlushedOk =>
        /\ logFile[flushed.reads[1]].header = <<"Date: ", flushed.reads[1]>>
        /\ Serializes(logFile[flushed.reads[1]], sessions)
        /\ InLexicographicOrder(logFile[flushed.reads[1]].lines)
        /\ (sessions = ScenarioC /\ flushed.reads[1] = "2024-01-01") =>
              /\ logFile["2024-01-01"].header = <<"Date: ", "2024-01-01">>
              /\ logFile["2024-01-01"].lines =
                    << <<"Chrome", ",", 2, "m ", 5, "s">>,
                       <<"Terminal", ",", 0, "m ", 40, "s">> >>

\* C20: for every non-negative totalDuration t written to the log or the
\* summary, minutes = floor(t / 60) and seconds = t mod 60, so that
\* 0 <= seconds < 60 and minutes * 60 + seconds = t.
C20_MinutesAndSeconds ==
    /\ FlushedOk =>
          /\ Len(logFile[flushed.reads[1]].lines) = Len(summary.order)
          /\ \A i \in 1..Len(summary.order) :
                LET line == logFile[flushed.reads[1]].lines[i]
                    t == sessions[summary.order[i]].totalDuration
                IN  /\ line[1] = summary.order[i]
                    /\ 0 <= line[5] /\ line[5] < 60
                    /\ line[3] * 60 + line[5] = t
    /\ (summary.printed /\ pc \in {"log", "return"}) =>
          /\ Keys(sessions) = {summary.order[i] : i \in 1..Len(summary.order)}
          /\ \A i \in 1..Len(summary.order) :
                LET line == summary.lines[i]
                    t == sessions[summary.order[i]].totalDuration
                IN  /\ line[2] = summary.order[i]
                    /\ 0 <= line[6] /\ line[6] < 60
                    /\ line[4] * 60 + line[6] = t

\* C20's case: totals of 125 s and 60 s were printed and logged.
C20_Witness ==
    /\ FlushedOk
    /\ sessions["Chrome"].present /\ sessions["Chrome"].totalDuration = 125
    /\ sessions["Terminal"].present
    /\ sessions["Terminal"].totalDuration = 60
    /\ summary.printed

\* C21: when the daily record cannot be written, the flush reports an
\* IOError to its caller and not success, the process goes on, and the
\* session table is the same before and after the failed flush.
C21_FailedFlushReportsIOError ==
    (Flushed /\ flushed.outcome # "ok") =>
        /\ flushed.said = "IOError"
        /\ proc = "running"
        /\ sessions = flushed.table

\* A copy of the table was just made: the step of AnalyzerCopy.
CopyStep == pcA = "copy" /\ pcA' = "unlock"

\* C22: in every snapshot the sum of totalDuration over all entries is at
\* most the wall-clock time elapsed between the start of tracking and the
\* moment the snapshot was taken.
C22_SumWithinElapsed ==
    [][CopyStep =>
         Sec(SumOfTotals(snapshot')) <= SystemNow - snapInfo.began]_vars

\* C22, with the elapsed time read off a clock that is never adjusted, for
\* the copies made while main has not returned.
C22_WithinSteadyElapsed ==
    [][(CopyStep /\ alive) =>
         Sec(SumOfTotals(snapshot')) <= SteadyNow - snapInfo.began]_vars

\* C23: every committed span and every totalDuration is non-negative, and
\* no application's totalDuration decreases from one table state to the
\* next, whatever the ticks, commits and clock readings.
C23_NonNegativeAndMonotone ==
    [][/\ \A a \in Keys(sessions') :
            /\ sessions'[a].totalDuration >= 0
            /\ \A i \in 1..Len(sessions'[a].focusDurations) :
                  sessions'[a].focusDurations[i] >= 0
       /\ \A a \in Keys(sessions) :
            sessions'[a].totalDuration >= sessions[a].totalDuration]_vars

\* s is a prefix of t.
IsPrefix(s, t) == Len(s) <= Len(t) /\ s = SubSeq(t, 1, Len(s))

\* C24: focusDurations is append-only: of two snapshots taken in order,
\* each application's focusDurations in the earlier is a prefix of its
\* focusDurations in the later.
C24_SpansAppendOnly ==
    [][(CopyStep /\ snapInfo.n > 0) =>
         \A a \in Keys(lastSnap) :
            IsPrefix(lastSnap[a].focusDurations,
                     snapshot'[a].focusDurations)]_vars

\* C24, for the copies made while main has not returned.
C24_WhileTableAlive ==
    [][(CopyStep /\ snapInfo.n > 0 /\ alive) =>
         \A a \in Keys(lastSnap) :
            IsPrefix(lastSnap[a].focusDurations,
                     snapshot'[a].focusDurations)]_vars

\* The classification table the claim speaks of: mapped identifiers and
\* their categories.
Classification == [a \in {"A"} |-> "Productivity"]

\* classify(appName) as the claim has it.
Classify(a) ==
    IF a \in DOMAIN Classification THEN Classification[a]
    ELSE "Uncategorized"

\* C25: classify(appName) gives the mapped category of a mapped identifier
\* and "Uncategorized" for any other, and each AppSession of the table
\* carries the category so obtained for its appName, throughout the run.
C25_SessionsCarryCategory ==
    \A a \in Keys(sessions) :
        /\ "category" \in DOMAIN sessions[a]
        /\ sessions[a].category = Classify(a)

\* The user has pressed Enter: the shutdown request.
Requested == stdinHead \in {"enter", "line"}

\* C26: once shutdown is requested the sampler leaves its loop for the final
\* commit and the flush, whatever was typed before the request: the check
\* of stdin that ends a tick made after the request leaves the loop.
C26_RequestEndsLoop ==
    [][(Requested /\ pc = "peek" /\ pc' # "peek") => pc' = "final"]_vars

\* C28: while no shutdown is requested the sampler keeps ticking: after a
\* poll it can always go on to its next sleep and poll, it waits for no
\* input or output.
C28_SamplerNeverWaits ==
    (proc = "running" /\ pc = "peek" /\ ~Requested) => ENABLED MainPeek

\* C29: an analyzer run goes to the shared table once, for the copy it makes
\* under the lock; the analyzer holds the lock around that copy only, what
\* it analyses is the copy as it was made, and main, when it comes to
\* commit while the analyzer computes its report, can take the lock.
C29_LockOnlyAroundTheCopy ==
    /\ mutex = "analyzer" <=> pcA \in {"copy", "unlock"}
    /\ (proc = "running" /\ pcA = "analyze") =>
          /\ snapshot = lastSnap
          /\ pc = "lock" => ENABLED MainLock

\* Main commits a span, under the lock, while the analyzer computes the
\* report of a copy that has not got them.
C29_Witness ==
    /\ proc = "running"
    /\ pcA = "analyze"
    /\ mutex = "main"
    /\ pc = "unlock"
    /\ sessions # snapshot

\* The program counters at which main holds sessionMutex, and the analyzer.
MainHolds == pc \in {"name", "total", "push", "unlock"}

AnalyzerHolds == pcA \in {"copy", "unlock"}

\* The lock discipline at every state: the holder of the mutex is inside its
\* critical section and nowhere else, it does not wait for the mutex again,
\* and it can take its next step towards the release.
LockDiscipline ==
    /\ mutex = "main" <=> MainHolds
    /\ mutex = "analyzer" <=> AnalyzerHolds
    /\ (proc = "running" /\ mutex = "main") => ENABLED MainRest
    /\ (proc = "running" /\ mutex = "analyzer") => ENABLED AnalyzerStep
    /\ (proc = "running" /\ mutex = "free" /\ pc = "lock") => ENABLED MainLock
    /\ (proc = "running" /\ mutex = "free" /\ pcA = "lock") =>
            ENABLED AnalyzerLock

\* C30: there is one lock and no task asks for a lock while it holds it,
\* every lock taken is released, and a task that waits for the lock gets
\* it, as long as the process runs.
C30_NoDeadlock ==
    /\ []LockDiscipline
    /\ [](pc = "lock" => <>(mutex = "main"))
    /\ [](pcA = "lock" => <>(mutex = "analyzer" \/ proc # "running"))

\* Main waits for the lock the analyzer holds for its copy.
C30_Witness ==
    /\ proc = "running"
    /\ pc = "lock"
    /\ mutex = "analyzer"
    /\ alive

\* Where the contacts are stored: a city and a place in its vector.
Places == {<<c, i>> : c \in Range(Cities), i \in 1..Len(Names) * Cardinality(Phones)}

Stored == {p \in Places : p[1] \in DOMAIN cityGroups /\ p[2] <= Len(cityGroups[p[1]])}

At(p) == cityGroups[p[1]][p[2]]

\* C27: no two stored contacts have the same name and the same city; an
\* Add Contact is answered "already exists" only when a contact of that
\* name and city is stored, and a contact answered "added" is stored.
C27_UniqueNameAndCity ==
    /\ \A p, q \in Stored :
          (At(p).name = At(q).name /\ At(p).city = At(q).city) => p = q
    /\ (entered.choice = 1 /\ entered.said = "exists") =>
          \E p \in Stored : /\ At(p).name = entered.name
                             /\ At(p).city = entered.city
    /\ (entered.choice = 1 /\ entered.said = "added") =>
          \E p \in Stored :
              At(p) = Contact(entered.name, entered.phone, entered.city)

\* The names main has committed so far.
Committed(cs) == {cs[i].app : i \in 1..Len(cs)}

\* The entries of the table come with the first commit of their name and
\* stay.
KeysFollowCommits ==
    /\ mutex' # "main" => Keys(sessions') = Committed(issued')
    /\ Keys(sessions) \subseteq Keys(sessions')

\* C31: a session is in the table exactly when its name has been committed,
\* no session is ever removed, and the names of a snapshot are among the
\* names of every later one.
C31_KeysOnlyGrow ==
    [][/\ KeysFollowCommits
       /\ (CopyStep /\ snapInfo.n > 0) =>
              Keys(lastSnap) \subseteq Keys(snapshot')]_vars

\* C31, for the copies made while main has not returned.
C31_WhileTableAlive ==
    [][/\ KeysFollowCommits
       /\ (CopyStep /\ snapInfo.n > 0 /\ alive) =>
              Keys(lastSnap) \subseteq Keys(snapshot')]_vars

\* Main is at one of the three statements of a commit, under the lock.
Committing == mutex = "main" /\ pc \in {"name", "total", "push"}

\* C32: only main's commits write the table: a step of the analyzer, the
\* summary and the flush leave it as it was, and a commit is entered only
\* when every commit entered before is complete.
C32_OnlyCommitsWrite ==
    [][/\ sessions' # sessions => (Committing /\ pcA' = pcA)
       /\ (pcA' # pcA \/ pc \in {"summary", "log"}) => sessions' = sessions
       /\ Len(issued') > Len(issued) => sessions = ApplyAll(issued)]_vars

\* The analyzer has run, the summary is printed and the log written, of a
\* table of two sessions.
C32_Witness ==
    /\ pc = "return"
    /\ flushed.n > 0
    /\ summary # NoSummary
    /\ report.made
    /\ Cardinality(Keys(sessions)) = 2
    /\ Len(issued) >= 2

\* The analyzer ends a run: analyzeBehavior returns.
AnalyzeStep == pcA = "analyze" /\ pcA' = "sleep"

\* What the two reports tell the user is the same.
SameReport(r1, r2) ==
    /\ r1.topApp = r2.topApp
    /\ r1.maxDuration = r2.maxDuration
    /\ r1.totalSwitches = r2.totalSwitches
    /\ r1.avgFocus = r2.avgFocus
    /\ r1.fragmentation = r2.fragmentation

\* C33: the analyzer may run any number of times between two commits, and
\* a run over a snapshot equal to the one of the run before gives a report
\* equal to the one before.
C33_EqualSnapshotsEqualReports ==
    [][(AnalyzeStep /\ report.made /\ report.sessions = snapshot) =>
          SameReport(report, report')]_vars

\* C33, for the snapshots in which no two sessions share the largest total.
C33_WithoutTies ==
    [][(AnalyzeStep /\ report.made /\ report.sessions = snapshot
        /\ \A a, b \in Longest(snapshot) : a = b) =>
          SameReport(report, report')]_vars

\* The span of this tick is in the table already: main is past
\* totalDuration += duration.
SpanAdded == pc \in {"push", "unlock", "open"}

\* The instant from which the time of the open session is not yet in the
\* table: the start of currentSession, or, once the span of this tick is
\* added, the reading `now` the new session is opened with.
OpenSince == IF SpanAdded THEN now ELSE startTime

\* C34: the spans tile the tracked time without gap or overlap: until the
\* final commit the totals of the table and the time the open session has
\* run add up to the time since tracking began, and from the final commit
\* on the totals add up to the time from the start to the reading taken at
\* shutdown; the clock is read at whole seconds.
C34_SpansTileTheTime ==
    /\ (~final \/ (pc \in {"lock", "name", "total"})) =>
          Sec(SumOfTotals(sessions)) + (SystemNow - OpenSince)
              = SystemNow - snapInfo.began
    /\ (final /\ pc \notin {"lock", "name", "total"}) =>
          Sec(SumOfTotals(sessions)) = now - snapInfo.began

\* Main has made the final commit after a switch, with time in both spans.
C34_Witness ==
    /\ pc = "return"
    /\ Len(issued) = 2
    /\ \A i \in 1..2 : issued[i].duration > 0
    /\ Cardinality(Keys(sessions)) = 2

\* Main is between two statements of its loop with no commit under way.
BetweenTicks == pc \in {"peek", "sleep"}

C36_AccessUnderMutex ==
    [][/\ sessions' # sessions => (mutex = "main" /\ mutex' = "main")
       /\ CopyStep => (mutex = "analyzer" /\ mutex' = "analyzer")
       /\ ~(MainHolds' /\ AnalyzerHolds')]_vars

\* Main is inside the critical section of a commit, the table half written,
\* and the analyzer waits for the lock to make its copy.
C36_Witness ==
    /\ proc = "running"
    /\ pc \in {"total", "push"}
    /\ mutex = "main"
    /\ pcA = "lock"
    /\ sessions # pre

\* The analyzer reads the table: the copy is made, or the read ends the
\* process.
ReadsTable == pcA = "copy" /\ (pcA' = "unlock" \/ proc' = "crashed")

\* C37: once main has returned and the table is destroyed, the analyzer
\* makes no copy of it: every read of the table finds it alive.
C37_NoCopyAfterTeardown == [][ReadsTable => alive]_vars

\* The switches main has detected so far are none.
NoSwitchYet ==
    /\ (IF shut.left THEN shut.issuedBefore ELSE Len(issued)) = 0
    /\ tick.kind # "switch"

\* The seconds committed for `app` by the commits of `cs`.
RECURSIVE CommittedFor(_, _)
CommittedFor(cs, app) ==
    IF cs = <<>> THEN 0
    ELSE (IF cs[Len(cs)].app = app THEN cs[Len(cs)].duration ELSE 0)
         + CommittedFor(SubSeq(cs, 1, Len(cs) - 1), app)

\* The span of currentSession is not committed yet.
SessionOpen == ~shut.left \/ (final /\ pc = "lock")

\* In table t the open application has what was committed for it, nothing
\* of the span that is running.
ExcludesRunningSpan(t) ==
    IF currentApp \in Keys(t)
    THEN t[currentApp].totalDuration = CommittedFor(issued, currentApp)
    ELSE CommittedFor(issued, currentApp) = 0
         /\ \A i \in 1..Len(issued) : issued[i].app # currentApp

\* C38: the time of the open session is not seen by readers before it is
\* committed: a snapshot taken before any switch was detected is empty,
\* and a snapshot has, for the open application, no part of the running
\* span.
C38_OpenSessionInvisible ==
    [][CopyStep =>
         /\ NoSwitchYet => Keys(snapshot') = {}
         /\ SessionOpen => ExcludesRunningSpan(snapshot')]_vars

\* C38 amended: a snapshot taken before any commit, of a switch or the
\* final one, is empty, and a snapshot has, for the open application, no
\* part of the running span.
C38_EmptyBeforeAnyCommit ==
    [][CopyStep =>
         /\ Len(issued) = 0 => Keys(snapshot') = {}
         /\ SessionOpen => ExcludesRunningSpan(snapshot')]_vars

\* A copy was made while the open application, committed before, had been
\* running again for a second or more.
C38_Witness ==
    /\ pcA = "unlock"
    /\ ~shut.left
    /\ pc \in {"peek", "sleep"}
    /\ clock - startTime >= Sec(1)
    /\ currentApp \in Keys(snapshot)
    /\ snapshot[currentApp].totalDuration > 0

\* C39: the date in the name of a log file is the date written in its
\* header line, also when midnight passes while writeDailyLog runs.
C39_NameAndHeaderSameDate ==
    \A d \in DateSet :
        (logFile[d].written /\ logFile[d].header # <<>>) =>
            logFile[d].header[2] = d

\* seen holds the identities of the stored contacts, one for each.
SeenIsStored ==
    /\ seen = {Identity(At(p).name, At(p).phone, At(p).city) : p \in Stored}
    /\ Cardinality(seen) = Cardinality(Stored)

\* The same contacts are stored in the same cities, in whatever order.
SameContacts ==
    /\ DOMAIN cityGroups' = DOMAIN cityGroups
    /\ \A c \in DOMAIN cityGroups :
          /\ Len(cityGroups'[c]) = Len(cityGroups[c])
          /\ Range(cityGroups'[c]) = Range(cityGroups[c])

\* C40: after every menu operation seen is the set of the identities of
\* the stored contacts and has as many elements as there are contacts; an
\* Add answered "already exists" changes neither cityGroups nor seen; Show,
\* Sort, Search and Count add and remove no contact.
C40_SeenTracksStored ==
    [][/\ SeenIsStored'
       /\ (entered'.choice = 1 /\ entered'.said = "exists") =>
              UNCHANGED <<cityGroups, seen>>
       /\ entered'.choice \in {2, 3, 4, 5} =>
              (seen' = seen /\ SameContacts)]_vars

\* An Add was refused with three contacts stored, two of them in one city.
C40_Witness ==
    /\ entered.choice = 1
    /\ entered.said = "exists"
    /\ Cardinality(Stored) = 3
    /\ \E c \in DOMAIN cityGroups : Len(cityGroups[c]) = 2

=============================================================================
